---- MODULE Spec2Model ----
(***************************************************************************)
(* The reporting layer of the native Python locator (messaging.rs): the    *)
(* JSON-RPC envelopes, the wire framer send_message and the deduplicating  *)
(* dispatcher JsonRpcDispatcher.                                           *)
(*                                                                         *)
(* Text is modelled as Rust holds it: a String is a sequence of UTF-8      *)
(* bytes, an OsStr/PathBuf is an arbitrary sequence of bytes (Unix), and   *)
(* standard output is the flat sequence of bytes written so far.  An       *)
(* Option<T> is a sequence of length at most one.                          *)
(***************************************************************************)
EXTENDS Integers, Sequences, FiniteSets, TLC

VARIABLES
    reported_managers,      \* JsonRpcDispatcher.reported_managers: HashSet<String>
    reported_environments,  \* JsonRpcDispatcher.reported_environments: HashSet<String>
    stdout,                 \* the bytes print! has written to standard output
    panicked,               \* TRUE once an unwrap() has panicked: the caller is gone
    sent,                   \* history: the messages send_message has written, in order
    mgr_calls,              \* history: how often report_environment_manager was invoked, per path
    env_calls,              \* history: the environments report_environment was invoked with
    exit_calls,             \* history: the number of calls of exit
    last,                   \* history: the last call of the trait and what it returned
    ncalls,                 \* the number of calls made so far (bounded by MaxCalls)
    log_level,              \* the LevelFilter initialize_logger installed, None before it
    stdout_lock,            \* the thread that holds the lock of std::io::Stdout, if any
    threads,                \* per thread: where it is in the call it is running
    exclusive               \* TRUE iff callers hold the dispatcher as &mut self

\* What the threads of the process share besides the dispatcher and stdout.
process == <<log_level, stdout_lock, threads, exclusive>>

vars == <<reported_managers, reported_environments, stdout, panicked, sent,
          mgr_calls, env_calls, exit_calls, last, ncalls, process>>

\* Length of the call sequences explored.
MaxCalls == 3

----------------------------------------------------------------------------
(* Option<T> *)

None == << >>
Some(v) == <<v>>
IsSome(o) == Len(o) = 1
IsNone(o) == Len(o) = 0
Unwrap(o) == o[1]

----------------------------------------------------------------------------
(* Bytes and text *)

\* A UTF-8 continuation byte, 10xxxxxx.
IsCont(b) == b >= 128 /\ b <= 191

\* core::str::from_utf8 from position i: TRUE iff bs[i..] is well-formed UTF-8.
RECURSIVE Utf8From(_, _)
Utf8From(bs, i) ==
    IF i > Len(bs) THEN TRUE
    ELSE LET b == bs[i] IN
         IF b < 128 THEN Utf8From(bs, i + 1)
         ELSE IF b >= 194 /\ b <= 223
              THEN /\ i + 1 <= Len(bs)
                   /\ IsCont(bs[i + 1])
                   /\ Utf8From(bs, i + 2)
         ELSE IF b >= 224 /\ b <= 239
              THEN /\ i + 2 <= Len(bs)
                   /\ IsCont(bs[i + 1])
                   /\ (b = 224 => bs[i + 1] >= 160)
                   /\ (b = 237 => bs[i + 1] <= 159)
                   /\ IsCont(bs[i + 2])
                   /\ Utf8From(bs, i + 3)
         ELSE IF b >= 240 /\ b <= 244
              THEN /\ i + 3 <= Len(bs)
                   /\ IsCont(bs[i + 1])
                   /\ (b = 240 => bs[i + 1] >= 144)
                   /\ (b = 244 => bs[i + 1] <= 143)
                   /\ IsCont(bs[i + 2])
                   /\ IsCont(bs[i + 3])
                   /\ Utf8From(bs, i + 4)
         ELSE FALSE

\* OsStr::to_str / Path::to_str: the text of the path when its bytes are UTF-8.
to_str(os) == IF Utf8From(os, 1) THEN Some(os) ELSE None

\* str::chars().count(): the characters are the bytes that are no continuation.
CharCount(s) == Cardinality({i \in 1..Len(s) : ~IsCont(s[i])})

\* A faulty variant of ByteLen: the number of characters, as a framer that counts
\* characters would declare.
ByteLenAsChars(s) == CharCount(s)

\* str::len(): the length of a String is its number of bytes.
ByteLen(s) == Len(s)

\* Display for usize, as format!("{}") prints it: the decimal digits.
RECURSIVE Decimal(_)
Decimal(n) == IF n < 10 THEN <<48 + n>> ELSE Decimal(n \div 10) \o <<48 + (n % 10)>>

\* The concatenation of a sequence of byte sequences.
RECURSIVE Concat(_)
Concat(ss) == IF ss = << >> THEN << >> ELSE Head(ss) \o Concat(Tail(ss))

\* The elements of ss separated by commas (44).
RECURSIVE JoinComma(_)
JoinComma(ss) ==
    IF ss = << >> THEN << >>
    ELSE IF Len(ss) = 1 THEN ss[1]
    ELSE ss[1] \o <<44>> \o JoinComma(Tail(ss))

----------------------------------------------------------------------------
(* serde_json, compact form *)

\* One lower-case hexadecimal digit.
HexDigit(d) == IF d < 10 THEN 48 + d ELSE 87 + d

\* serde_json's escape of one byte of a string: \" \\ \b \t \n \f \r, \u00XX
\* for the other control characters, every other byte as it is.
EscapeByte(b) ==
    IF b = 34 THEN <<92, 34>>
    ELSE IF b = 92 THEN <<92, 92>>
    ELSE IF b = 8 THEN <<92, 98>>
    ELSE IF b = 9 THEN <<92, 116>>
    ELSE IF b = 10 THEN <<92, 110>>
    ELSE IF b = 12 THEN <<92, 102>>
    ELSE IF b = 13 THEN <<92, 114>>
    ELSE IF b < 32 THEN <<92, 117, 48, 48, HexDigit(b \div 16), HexDigit(b % 16)>>
    ELSE <<b>>

\* A JSON string: the escaped bytes between double quotes.
SerStr(s) == <<34>> \o Concat([i \in 1..Len(s) |-> EscapeByte(s[i])]) \o <<34>>

\* "null"
NullLit == <<110, 117, 108, 108>>

\* Option<T> with no skip_serializing_if: None is written as null.
SerOption(o, some) == IF IsSome(o) THEN some ELSE NullLit

\* One field of a struct: "name":value.  The result is the list of the fields
\* written (one), so that a struct is the comma-joined concatenation of lists.
Field(name, value) == << <<34>> \o name \o <<34, 58>> \o value >>

\* A faulty variant of OptField: skip_serializing_if = "Option::is_none", the field is
\* left out when absent.
OptFieldSkip(name, o, some) == IF IsSome(o) THEN Field(name, some) ELSE << >>

\* An Option field of a struct: always written, null when absent.
OptField(name, o, some) == Field(name, SerOption(o, some))

\* {"k":v,...}
SerObject(fields) == <<123>> \o JoinComma(fields) \o <<125>>

\* Vec<String>: ["a","b"]
SerStrVec(v) == <<91>> \o JoinComma([i \in 1..Len(v) |-> SerStr(v[i])]) \o <<93>>

\* Serialize for Path: the path as a string; an error when it is not UTF-8.
PathSerializable(p) == IsSome(to_str(p))
SerPath(p) == SerStr(p)
OptPathSerializable(o) == IsNone(o) \/ PathSerializable(Unwrap(o))

\* Unwrap of an Option that may be None: only for use under SerOption/IF.
Val(o) == IF IsSome(o) THEN Unwrap(o) ELSE << >>

----------------------------------------------------------------------------
(* The field and variant names serde derives (rename_all = "camelCase") *)

K_jsonrpc == <<106, 115, 111, 110, 114, 112, 99>>
K_method == <<109, 101, 116, 104, 111, 100>>
K_params == <<112, 97, 114, 97, 109, 115>>
K_executablePath == <<101, 120, 101, 99, 117, 116, 97, 98, 108, 101, 80, 97, 116, 104>>
K_version == <<118, 101, 114, 115, 105, 111, 110>>
K_tool == <<116, 111, 111, 108>>
K_name == <<110, 97, 109, 101>>
K_pythonExecutablePath ==
    <<112, 121, 116, 104, 111, 110, 69, 120, 101, 99, 117, 116, 97, 98, 108, 101, 80, 97, 116, 104>>
K_category == <<99, 97, 116, 101, 103, 111, 114, 121>>
K_envPath == <<101, 110, 118, 80, 97, 116, 104>>
K_sysPrefixPath == <<115, 121, 115, 80, 114, 101, 102, 105, 120, 80, 97, 116, 104>>
K_envManager == <<101, 110, 118, 77, 97, 110, 97, 103, 101, 114>>
K_pythonRunCommand ==
    <<112, 121, 116, 104, 111, 110, 82, 117, 110, 67, 111, 109, 109, 97, 110, 100>>
K_projectPath == <<112, 114, 111, 106, 101, 99, 116, 80, 97, 116, 104>>

\* "2.0", "envManager", "pythonEnvironment", "exit"
V_2_0 == <<50, 46, 48>>
M_envManager == <<101, 110, 118, 77, 97, 110, 97, 103, 101, 114>>
M_pythonEnvironment ==
    <<112, 121, 116, 104, 111, 110, 69, 110, 118, 105, 114, 111, 110, 109, 101, 110, 116>>
M_exit == <<101, 120, 105, 116>>

\* EnvManagerType
EnvManagerType == {"Conda", "Pyenv"}
EnvManagerTypeName(t) ==
    CASE t = "Conda" -> <<99, 111, 110, 100, 97>>
      [] t = "Pyenv" -> <<112, 121, 101, 110, 118>>

\* PythonEnvironmentCategory
PythonEnvironmentCategory ==
    {"System", "Homebrew", "Conda", "Pyenv", "PyenvVirtualEnv", "WindowsStore",
     "WindowsRegistry", "Pipenv", "VirtualEnvWrapper", "Venv", "VirtualEnv"}
PythonEnvironmentCategoryName(c) ==
    CASE c = "System" -> <<115, 121, 115, 116, 101, 109>>
      [] c = "Homebrew" -> <<104, 111, 109, 101, 98, 114, 101, 119>>
      [] c = "Conda" -> <<99, 111, 110, 100, 97>>
      [] c = "Pyenv" -> <<112, 121, 101, 110, 118>>
      [] c = "PyenvVirtualEnv" ->
            <<112, 121, 101, 110, 118, 86, 105, 114, 116, 117, 97, 108, 69, 110, 118>>
      [] c = "WindowsStore" -> <<119, 105, 110, 100, 111, 119, 115, 83, 116, 111, 114, 101>>
      [] c = "WindowsRegistry" ->
            <<119, 105, 110, 100, 111, 119, 115, 82, 101, 103, 105, 115, 116, 114, 121>>
      [] c = "Pipenv" -> <<112, 105, 112, 101, 110, 118>>
      [] c = "VirtualEnvWrapper" ->
            <<118, 105, 114, 116, 117, 97, 108, 69, 110, 118, 87, 114, 97, 112, 112, 101, 114>>
      [] c = "Venv" -> <<118, 101, 110, 118>>
      [] c = "VirtualEnv" -> <<118, 105, 114, 116, 117, 97, 108, 69, 110, 118>>

----------------------------------------------------------------------------
(* The envelope model *)

\* EnvManager::new
EnvManager(executable_path, version, tool) ==
    [executable_path |-> executable_path, version |-> version, tool |-> tool]

\* PythonEnvironment::new: project_path is None
PythonEnvironment(name, python_executable_path, category, version, env_path, sys_prefix_path, env_manager, python_run_command) ==
    [name |-> name, python_executable_path |-> python_executable_path,
     category |-> category, version |-> version, env_path |-> env_path,
     sys_prefix_path |-> sys_prefix_path, env_manager |-> env_manager,
     python_run_command |-> python_run_command, project_path |-> None]

\* PythonEnvironment::new_pipenv: the run command is the interpreter path,
\* to_string_lossy (the path itself when it is UTF-8; U+FFFD, EF BF BD, for
\* each byte of the model's paths that is not).
to_string_lossy(os) ==
    IF IsSome(to_str(os)) THEN os
    ELSE Concat([i \in 1..Len(os) |-> IF os[i] < 128 THEN <<os[i]>> ELSE <<239, 191, 189>>])
PythonEnvironmentPipenv(python_executable_path, version, env_path, sys_prefix_path, env_manager, project_path) ==
    [name |-> None, python_executable_path |-> python_executable_path,
     category |-> "Pipenv", version |-> version, env_path |-> env_path,
     sys_prefix_path |-> sys_prefix_path, env_manager |-> env_manager,
     python_run_command |->
         IF IsSome(python_executable_path)
         THEN Some(<<to_string_lossy(Unwrap(python_executable_path))>>)
         ELSE None,
     project_path |-> Some(project_path)]

\* EnvManagerMessage::new, PythonEnvironmentMessage::new, ExitMessage::new
EnvManagerMessage(params) ==
    [jsonrpc |-> V_2_0, method |-> M_envManager, params |-> Some(params)]
PythonEnvironmentMessage(params) ==
    [jsonrpc |-> V_2_0, method |-> M_pythonEnvironment, params |-> Some(params)]
ExitMessage == [jsonrpc |-> V_2_0, method |-> M_exit, params |-> None]

\* #[derive(Serialize)] for EnvManager
EnvManagerSerializable(m) == PathSerializable(m.executable_path)
SerEnvManager(m) ==
    SerObject(Field(K_executablePath, SerPath(m.executable_path))
              \o OptField(K_version, m.version, SerStr(Val(m.version)))
              \o Field(K_tool, SerStr(EnvManagerTypeName(m.tool))))

\* An Option<EnvManager> whose manager, if any, is the record or a stand-in.
ValManager(o) == IF IsSome(o) THEN Unwrap(o) ELSE EnvManager(<< >>, None, "Conda")

\* #[derive(Serialize)] for PythonEnvironment
PythonEnvironmentSerializable(e) ==
    /\ OptPathSerializable(e.python_executable_path)
    /\ OptPathSerializable(e.env_path)
    /\ OptPathSerializable(e.sys_prefix_path)
    /\ IsSome(e.env_manager) => EnvManagerSerializable(Unwrap(e.env_manager))
    /\ OptPathSerializable(e.project_path)
SerPythonEnvironment(e) ==
    SerObject(OptField(K_name, e.name, SerStr(Val(e.name)))
              \o OptField(K_pythonExecutablePath, e.python_executable_path,
                          SerPath(Val(e.python_executable_path)))
              \o Field(K_category, SerStr(PythonEnvironmentCategoryName(e.category)))
              \o OptField(K_version, e.version, SerStr(Val(e.version)))
              \o OptField(K_envPath, e.env_path, SerPath(Val(e.env_path)))
              \o OptField(K_sysPrefixPath, e.sys_prefix_path, SerPath(Val(e.sys_prefix_path)))
              \o OptField(K_envManager, e.env_manager, SerEnvManager(ValManager(e.env_manager)))
              \o OptField(K_pythonRunCommand, e.python_run_command,
                          SerStrVec(Val(e.python_run_command)))
              \o OptField(K_projectPath, e.project_path, SerPath(Val(e.project_path))))

\* logging::LogLevel and logging::LogMessage, which messaging.rs imports: the
\* four severities, and an envelope of the method "log" whose params are the
\* message text and the severity.
LogLevel == {"Debug", "Info", "Warning", "Error"}
LogLevelName(l) ==
    CASE l = "Debug" -> <<100, 101, 98, 117, 103>>
      [] l = "Info" -> <<105, 110, 102, 111>>
      [] l = "Warning" -> <<119, 97, 114, 110, 105, 110, 103>>
      [] l = "Error" -> <<101, 114, 114, 111, 114>>
K_message == <<109, 101, 115, 115, 97, 103, 101>>
K_level == <<108, 101, 118, 101, 108>>
M_log == <<108, 111, 103>>
LogMessage(message, level) ==
    [jsonrpc |-> V_2_0, method |-> M_log,
     params |-> Some([message |-> message, level |-> level])]
SerLog(l) ==
    SerObject(Field(K_message, SerStr(l.message))
              \o Field(K_level, SerStr(LogLevelName(l.level))))

\* #[derive(Serialize)] for the messages: jsonrpc, method, params.
\* params of ExitMessage is Option<()>, always None.
SerParams(message) ==
    IF message.method = M_envManager THEN SerEnvManager(Unwrap(message.params))
    ELSE IF message.method = M_pythonEnvironment
         THEN SerPythonEnvironment(Unwrap(message.params))
    ELSE IF message.method = M_log THEN SerLog(Unwrap(message.params))
    ELSE NullLit
SerMessage(message) ==
    SerObject(Field(K_jsonrpc, SerStr(message.jsonrpc))
              \o Field(K_method, SerStr(message.method))
              \o OptField(K_params, message.params, SerParams(message)))
MessageSerializable(message) ==
    IF message.method = M_envManager THEN EnvManagerSerializable(Unwrap(message.params))
    ELSE IF message.method = M_pythonEnvironment
         THEN PythonEnvironmentSerializable(Unwrap(message.params))
    ELSE TRUE

\* serde_json::to_string: Ok(text), or Err when a path is not UTF-8.
to_string(message) ==
    IF MessageSerializable(message)
    THEN [ok |-> TRUE, v |-> SerMessage(message)]
    ELSE [ok |-> FALSE, v |-> << >>]

----------------------------------------------------------------------------
(* The values the discovery side hands in *)

\* "/a", "/é" (UTF-8: 2F C3 A9), and a path whose bytes are not UTF-8 (2F FF)
PathA == <<47, 97>>
PathB == <<47, 195, 169>>
PathX == <<47, 255>>
Paths == {PathA, PathB, PathX}

\* "3" and the name "é (22 C3 A9), which needs an escape
Version3 == <<51>>
NameQ == <<34, 195, 169>>

\* Two managers at each path, differing in version and tool.
Managers ==
    {EnvManager(p, None, "Conda") : p \in Paths}
        \cup {EnvManager(p, Some(Version3), "Pyenv") : p \in Paths}

OptInterpreters == {None, Some(PathA), Some(PathX)}
OptRoots == {None, Some(PathA), Some(PathB), Some(PathX)}

\* For every interpreter path and environment root a system environment that
\* has nothing else; for every interpreter path, without root and with the
\* root "/é", a conda environment that has everything and is owned by the
\* conda manager at "/é".  With them a pipenv environment, and a pyenv
\* environment owned by the manager whose path is not UTF-8.
Environments ==
    { PythonEnvironment(None, ir[1], "System", None, ir[2], None, None, None)
        : ir \in OptInterpreters \X OptRoots }
    \cup { PythonEnvironment(Some(NameQ), ir[1], "Conda", Some(Version3), ir[2], Some(PathA),
                             Some(EnvManager(PathB, None, "Conda")), Some(<<PathA, NameQ>>))
             : ir \in OptInterpreters \X {None, Some(PathB)} }
    \cup { PythonEnvironmentPipenv(Some(PathA), None, Some(PathA), None, None, PathB),
           PythonEnvironment(None, Some(PathA), "Pyenv", None, None, None,
                             Some(EnvManager(PathX, None, "Pyenv")), None) }

\* utils::PythonEnv, of which the dispatcher reads the executable only
Probes == {[executable |-> p] : p \in Paths}

----------------------------------------------------------------------------
(* The wire framer *)

\* "Content-Length: "
HeaderPrefix == <<67, 111, 110, 116, 101, 110, 116, 45, 76, 101, 110, 103, 116, 104, 58, 32>>

\* "\r\nContent-Type: application/vscode-jsonrpc; charset=utf-8\r\n\r\n"
HeaderRest ==
    <<13, 10, 67, 111, 110, 116, 101, 110, 116, 45, 84, 121, 112, 101, 58, 32, 97, 112,
      112, 108, 105, 99, 97, 116, 105, 111, 110, 47, 118, 115, 99, 111, 100, 101, 45, 106,
      115, 111, 110, 114, 112, 99, 59, 32, 99, 104, 97, 114, 115, 101, 116, 61, 117, 116,
      102, 45, 56, 13, 10, 13, 10>>

\* What print! writes for one message: the format string with {} = message.len()
\* and {} = message.
Frame(body) == HeaderPrefix \o Decimal(ByteLen(body)) \o HeaderRest \o body

\* send_message on the state st of the process: a serialization error panics in
\* unwrap() before anything is written; otherwise one frame goes to stdout.
send_message(st, message) ==
    LET r == to_string(message) IN
    IF ~r.ok THEN [st EXCEPT !.panicked = TRUE]
    ELSE [st EXCEPT !.out = @ \o Frame(r.v), !.sent = Append(@, message)]

----------------------------------------------------------------------------
(* Identity keying *)

\* get_manager_key: to_str()? gives None for a path that is not UTF-8.
get_manager_key(manager) ==
    LET s == to_str(manager.executable_path) IN
    IF IsSome(s) THEN Some(Unwrap(s)) ELSE None

\* A faulty variant of get_environment_key: the environment root is tried first.
get_environment_key_root_first(env) ==
    IF IsSome(env.env_path)
    THEN LET s == to_str(Unwrap(env.env_path)) IN
         IF IsSome(s) THEN [panic |-> FALSE, v |-> Some(Unwrap(s))]
         ELSE [panic |-> TRUE, v |-> None]
    ELSE IF IsSome(env.python_executable_path)
         THEN LET s == to_str(Unwrap(env.python_executable_path)) IN
              [panic |-> FALSE, v |-> IF IsSome(s) THEN Some(Unwrap(s)) ELSE None]
    ELSE [panic |-> FALSE, v |-> None]

\* get_environment_key: the interpreter path goes through to_str()? (None when
\* it is not UTF-8); the environment root goes through to_str().unwrap(), which
\* panics when it is not UTF-8.
get_environment_key(env) ==
    IF IsSome(env.python_executable_path)
    THEN LET s == to_str(Unwrap(env.python_executable_path)) IN
         [panic |-> FALSE, v |-> IF IsSome(s) THEN Some(Unwrap(s)) ELSE None]
    ELSE IF IsSome(env.env_path)
         THEN LET s == to_str(Unwrap(env.env_path)) IN
              IF IsSome(s) THEN [panic |-> FALSE, v |-> Some(Unwrap(s))]
              ELSE [panic |-> TRUE, v |-> None]
    ELSE [panic |-> FALSE, v |-> None]

----------------------------------------------------------------------------
(* The dispatcher.  st is the state a call runs on: rm and re are the two key *)
(* sets, out is stdout; the call returns the state it leaves.                 *)

\* create_dispatcher, in a process that has written nothing yet
create_dispatcher ==
    [rm |-> {}, re |-> {}, out |-> << >>, sent |-> << >>, panicked |-> FALSE,
     mgr_calls |-> [p \in Paths |-> 0]]

\* A faulty variant of was_environment_reported: a path that is not text counts as reported.
was_environment_reported_unless_text(st, env) ==
    LET key == to_str(env.executable) IN
    IF IsSome(key) THEN Unwrap(key) \in st.re ELSE TRUE

\* A faulty variant of was_environment_reported: the lookup goes to the other key set.
was_environment_reported_in_managers(st, env) ==
    LET key == to_str(env.executable) IN
    IF IsSome(key) THEN Unwrap(key) \in st.rm ELSE FALSE

was_environment_reported(st, env) ==
    LET key == to_str(env.executable) IN
    IF IsSome(key) THEN Unwrap(key) \in st.re ELSE FALSE

\* A faulty variant of report_environment_manager: the key is sent but never inserted.
report_environment_manager_no_insert(st, env) ==
    LET st0 == [st EXCEPT !.mgr_calls[env.executable_path] = @ + 1]
        key == get_manager_key(env)
    IN  IF IsSome(key)
        THEN IF Unwrap(key) \notin st0.rm
             THEN send_message(st0, EnvManagerMessage(env))
             ELSE st0
        ELSE st0

\* A faulty variant of report_environment_manager: no contains() check before the send.
report_environment_manager_unchecked(st, env) ==
    LET st0 == [st EXCEPT !.mgr_calls[env.executable_path] = @ + 1]
        key == get_manager_key(env)
    IN  IF IsSome(key)
        THEN send_message([st0 EXCEPT !.rm = @ \cup {Unwrap(key)}], EnvManagerMessage(env))
        ELSE st0

\* A faulty variant of report_environment_manager: the set is replaced by the new key.
report_environment_manager_replacing(st, env) ==
    LET st0 == [st EXCEPT !.mgr_calls[env.executable_path] = @ + 1]
        key == get_manager_key(env)
    IN  IF IsSome(key)
        THEN IF Unwrap(key) \notin st0.rm
             THEN send_message([st0 EXCEPT !.rm = {Unwrap(key)}], EnvManagerMessage(env))
             ELSE st0
        ELSE st0

report_environment_manager(st, env) ==
    LET st0 == [st EXCEPT !.mgr_calls[env.executable_path] = @ + 1]
        key == get_manager_key(env)
    IN  IF IsSome(key)
        THEN IF Unwrap(key) \notin st0.rm
             THEN send_message([st0 EXCEPT !.rm = @ \cup {Unwrap(key)}],
                               EnvManagerMessage(env))
             ELSE st0
        ELSE st0

\* A faulty variant of report_environment: a key counts as seen when either set has it.
report_environment_shared_keys(st, env) ==
    LET k == get_environment_key(env) IN
    IF k.panic THEN [st EXCEPT !.panicked = TRUE]
    ELSE IF IsSome(k.v)
         THEN LET key == Unwrap(k.v)
                  st1 == IF key \notin (st.re \cup st.rm)
                         THEN send_message([st EXCEPT !.re = @ \cup {key}],
                                           PythonEnvironmentMessage(env))
                         ELSE st
              IN  IF st1.panicked THEN st1
                  ELSE IF IsSome(env.env_manager)
                       THEN report_environment_manager(st1, Unwrap(env.env_manager))
                       ELSE st1
    ELSE st

\* A faulty variant of report_environment: the owning manager is reported first.
report_environment_manager_first(st, env) ==
    LET k == get_environment_key(env) IN
    IF k.panic THEN [st EXCEPT !.panicked = TRUE]
    ELSE IF IsSome(k.v)
         THEN LET key == Unwrap(k.v)
                  st1 == IF IsSome(env.env_manager)
                         THEN report_environment_manager(st, Unwrap(env.env_manager))
                         ELSE st
              IN  IF key \notin st1.re
                  THEN send_message([st1 EXCEPT !.re = @ \cup {key}],
                                    PythonEnvironmentMessage(env))
                  ELSE st1
    ELSE st

\* A faulty variant of report_environment: every report is written, known key or not.
report_environment_unchecked(st, env) ==
    LET k == get_environment_key(env) IN
    IF k.panic THEN [st EXCEPT !.panicked = TRUE]
    ELSE IF IsSome(k.v)
         THEN LET key == Unwrap(k.v)
                  st1 == send_message([st EXCEPT !.re = @ \cup {key}],
                                      PythonEnvironmentMessage(env))
              IN  IF st1.panicked THEN st1
                  ELSE IF IsSome(env.env_manager)
                       THEN report_environment_manager(st1, Unwrap(env.env_manager))
                       ELSE st1
    ELSE st

\* A faulty variant of report_environment: the key is never inserted.
report_environment_no_insert(st, env) ==
    LET k == get_environment_key(env) IN
    IF k.panic THEN [st EXCEPT !.panicked = TRUE]
    ELSE IF IsSome(k.v)
         THEN LET key == Unwrap(k.v)
                  st1 == IF key \notin st.re
                         THEN send_message(st, PythonEnvironmentMessage(env))
                         ELSE st
              IN  IF st1.panicked THEN st1
                  ELSE IF IsSome(env.env_manager)
                       THEN report_environment_manager(st1, Unwrap(env.env_manager))
                       ELSE st1
    ELSE st

\* A faulty variant of report_environment: the cascade is outside the test of the key.
report_environment_cascade_without_key(st, env) ==
    LET k == get_environment_key(env) IN
    IF k.panic THEN [st EXCEPT !.panicked = TRUE]
    ELSE LET st1 == IF IsSome(k.v) /\ Unwrap(k.v) \notin st.re
                    THEN send_message([st EXCEPT !.re = @ \cup {Unwrap(k.v)}],
                                      PythonEnvironmentMessage(env))
                    ELSE st
         IN  IF st1.panicked THEN st1
             ELSE IF IsSome(env.env_manager)
                  THEN report_environment_manager(st1, Unwrap(env.env_manager))
                  ELSE st1

\* A faulty variant of report_environment: the cascade is inside the test of novelty.
report_environment_cascade_when_new(st, env) ==
    LET k == get_environment_key(env) IN
    IF k.panic THEN [st EXCEPT !.panicked = TRUE]
    ELSE IF IsSome(k.v) /\ Unwrap(k.v) \notin st.re
         THEN LET st1 == send_message([st EXCEPT !.re = @ \cup {Unwrap(k.v)}],
                                      PythonEnvironmentMessage(env))
              IN  IF st1.panicked THEN st1
                  ELSE IF IsSome(env.env_manager)
                       THEN report_environment_manager(st1, Unwrap(env.env_manager))
                       ELSE st1
    ELSE st

report_environment(st, env) ==
    LET k == get_environment_key(env) IN
    IF k.panic THEN [st EXCEPT !.panicked = TRUE]
    ELSE IF IsSome(k.v)
         THEN LET key == Unwrap(k.v)
                  st1 == IF key \notin st.re
                         THEN send_message([st EXCEPT !.re = @ \cup {key}],
                                           PythonEnvironmentMessage(env))
                         ELSE st
              IN  IF st1.panicked THEN st1
                  ELSE IF IsSome(env.env_manager)
                       THEN report_environment_manager(st1, Unwrap(env.env_manager))
                       ELSE st1
    ELSE st

\* A faulty variant of exit: the exit envelope is deduplicated like the others.
exit_once(st) ==
    IF \E i \in 1..Len(st.sent) : st.sent[i].method = M_exit
    THEN st
    ELSE send_message(st, ExitMessage)

exit(st) == send_message(st, ExitMessage)

----------------------------------------------------------------------------
(* The state machine: one action per method of MessageDispatcher *)

NoCall == [op |-> "none", mgr |-> None, env |-> None, probe |-> None, ret |-> FALSE]

\* The state a call runs on, and the state it leaves.
Cur ==
    [rm |-> reported_managers, re |-> reported_environments, out |-> stdout,
     sent |-> sent, panicked |-> panicked, mgr_calls |-> mgr_calls]

Leave(st) ==
    /\ reported_managers' = st.rm
    /\ reported_environments' = st.re
    /\ stdout' = st.out
    /\ sent' = st.sent
    /\ panicked' = st.panicked
    /\ mgr_calls' = st.mgr_calls

\* A caller exists while nothing has panicked.
CanCall == ~panicked /\ ncalls < MaxCalls

\* The process at its start: a dispatcher just created, nothing written, no logger.
Fresh ==
    /\ reported_managers = create_dispatcher.rm
    /\ reported_environments = create_dispatcher.re
    /\ stdout = create_dispatcher.out
    /\ sent = create_dispatcher.sent
    /\ panicked = create_dispatcher.panicked
    /\ mgr_calls = create_dispatcher.mgr_calls
    /\ env_calls = {}
    /\ exit_calls = 0
    /\ last = NoCall
    /\ ncalls = 0
    /\ log_level = None
    /\ stdout_lock = None

\* One caller, which has the dispatcher to itself.
Init ==
    /\ Fresh
    /\ threads = << >>
    /\ exclusive = TRUE

WasEnvironmentReported ==
    \E probe \in Probes :
        /\ CanCall
        /\ last' = [NoCall EXCEPT !.op = "was_environment_reported",
                                  !.probe = Some(probe),
                                  !.ret = was_environment_reported(Cur, probe)]
        /\ ncalls' = ncalls + 1
        /\ UNCHANGED <<reported_managers, reported_environments, stdout, panicked, sent,
                       mgr_calls, env_calls, exit_calls, process>>

ReportEnvironmentManager ==
    \E m \in Managers :
        /\ CanCall
        /\ Leave(report_environment_manager(Cur, m))
        /\ last' = [NoCall EXCEPT !.op = "report_environment_manager", !.mgr = Some(m)]
        /\ ncalls' = ncalls + 1
        /\ UNCHANGED <<env_calls, exit_calls, process>>

ReportEnvironment ==
    \E e \in Environments :
        /\ CanCall
        /\ Leave(report_environment(Cur, e))
        /\ env_calls' = env_calls \cup {e}
        /\ last' = [NoCall EXCEPT !.op = "report_environment", !.env = Some(e)]
        /\ ncalls' = ncalls + 1
        /\ UNCHANGED <<exit_calls, process>>

Exit ==
    /\ CanCall
    /\ Leave(exit(Cur))
    /\ exit_calls' = exit_calls + 1
    /\ last' = [NoCall EXCEPT !.op = "exit"]
    /\ ncalls' = ncalls + 1
    /\ UNCHANGED <<env_calls, process>>

Next ==
    \/ WasEnvironmentReported
    \/ ReportEnvironmentManager
    \/ ReportEnvironment
    \/ Exit

Spec == Init /\ [][Next]_vars

----------------------------------------------------------------------------
(* The logger: initialize_logger installs an env_logger whose format closure  *)
(* sends every record that passes the filter as a log envelope.               *)

\* Number of records logged in the runs explored.
MaxLogs == 2

\* log::Level and log::LevelFilter, ordered as the log crate orders them.
Level == {"Error", "Warn", "Info", "Debug", "Trace"}
LevelFilter == {"Off"} \cup Level
LevelRank(l) ==
    CASE l = "Off" -> 0
      [] l = "Error" -> 1
      [] l = "Warn" -> 2
      [] l = "Info" -> 3
      [] l = "Debug" -> 4
      [] l = "Trace" -> 5

\* .filter(None, log_level): a record of any module passes iff its level is
\* at most the filter.
matches(filter, level) == LevelRank(level) <= LevelRank(filter)

\* A faulty variant of the level match: warnings and traces are reported as info.
LogLevelOfInfoByDefault(level) ==
    CASE level = "Debug" -> "Debug"
      [] level = "Error" -> "Error"
      [] OTHER -> "Info"

\* The match on record.level() in the format closure.
LogLevelOf(level) ==
    CASE level = "Debug" -> "Debug"
      [] level = "Error" -> "Error"
      [] level = "Info" -> "Info"
      [] level = "Warn" -> "Warning"
      [] OTHER -> "Debug"

\* fmt::Arguments as a sequence of pieces: a piece is text, or a value whose
\* Display implementation returns an error.
Piece(text) == [ok |-> TRUE, text |-> text]
FailingPiece == [ok |-> FALSE, text |-> << >>]

\* format!("{}", record.args()): the pieces one after the other; format! panics
\* when a formatting trait implementation returns an error.
format(args) ==
    IF \A i \in 1..Len(args) : args[i].ok
    THEN [ok |-> TRUE, v |-> Concat([i \in 1..Len(args) |-> args[i].text])]
    ELSE [ok |-> FALSE, v |-> << >>]

\* The closure given to Builder::format, run on the state st of the process.
format_closure(st, record) ==
    LET level == LogLevelOf(record.level)
        text == format(record.args)
    IN  IF ~text.ok THEN [st EXCEPT !.panicked = TRUE]
        ELSE send_message(st, LogMessage(text.v, level))

\* A log macro: nothing without a logger, nothing for a record the filter
\* rejects, the closure otherwise.
log(st, filter, record) ==
    IF IsSome(filter) /\ matches(Unwrap(filter), record.level)
    THEN format_closure(st, record)
    ELSE st

\* The records logged: at every level, "a", "x=" followed by the text "é, and
\* "x=" followed by a value that fails to display.
RecordArgs ==
    {<<Piece(<<97>>)>>, <<Piece(<<120, 61>>), Piece(NameQ)>>, <<Piece(<<120, 61>>), FailingPiece>>}
Records == [level : Level, args : RecordArgs]

CanLog == ~panicked /\ ncalls < MaxLogs

InitializeLogger ==
    \E filter \in LevelFilter :
        /\ log_level = None
        /\ ~panicked
        /\ log_level' = Some(filter)
        /\ UNCHANGED <<reported_managers, reported_environments, stdout, panicked, sent,
                       mgr_calls, env_calls, exit_calls, last, ncalls, stdout_lock,
                       threads, exclusive>>

Log ==
    \E record \in Records :
        /\ CanLog
        /\ Leave(log(Cur, log_level, record))
        /\ last' = [op |-> "log", record |-> record]
        /\ ncalls' = ncalls + 1
        /\ UNCHANGED <<env_calls, exit_calls, log_level, stdout_lock, threads, exclusive>>

NextLog ==
    \/ InitializeLogger
    \/ Log

SpecLog == Init /\ [][NextLog]_vars

----------------------------------------------------------------------------

(* Concurrent writers: print! locks std::io::Stdout for the whole of its       *)
(* write_fmt, which writes the pieces of the format string one by one.         *)

\* Number of send_message calls in the runs explored.
MaxFrames == 3

\* The threads that write: one reports through the dispatcher, one logs.
Writers == {"reporter", "logger"}

\* What each thread hands to send_message.
WriterMessages(t) ==
    IF t = "reporter"
    THEN {EnvManagerMessage(EnvManager(PathA, None, "Conda")), ExitMessage}
    ELSE {LogMessage(<<97>>, "Info"), LogMessage(NameQ, "Error")}

\* The writes of print!'s write_fmt: the literal pieces of the format string
\* and its two arguments, message.len() and message.
FramePieces(body) == <<HeaderPrefix, Decimal(ByteLen(body)), HeaderRest, body>>

Idle == [pc |-> "idle", message |-> None, pieces |-> << >>]

\* A faulty variant of the lock of stdout: it is granted to every caller.
StdoutLockAlwaysGranted == TRUE

\* Stdout::lock: the lock is free.
StdoutLockFree == stdout_lock = None

InitWriters ==
    /\ Fresh
    /\ threads = [t \in Writers |-> Idle]
    /\ exclusive = TRUE

\* send_message up to print!: the message is serialized.
Serialize(t) ==
    \E message \in WriterMessages(t) :
        /\ threads[t].pc = "idle"
        /\ ncalls < MaxFrames
        /\ to_string(message).ok
        /\ threads' = [threads EXCEPT ![t] = [pc |-> "print", message |-> Some(message),
                                               pieces |-> FramePieces(to_string(message).v)]]
        /\ ncalls' = ncalls + 1
        /\ UNCHANGED <<reported_managers, reported_environments, stdout, panicked, sent,
                       mgr_calls, env_calls, exit_calls, last, log_level, stdout_lock,
                       exclusive>>

\* print!: stdout().lock(), which waits for the lock.
LockStdout(t) ==
    /\ threads[t].pc = "print"
    /\ StdoutLockFree
    /\ stdout_lock' = Some(t)
    /\ threads' = [threads EXCEPT ![t].pc = "write"]
    /\ UNCHANGED <<reported_managers, reported_environments, stdout, panicked, sent,
                   mgr_calls, env_calls, exit_calls, last, ncalls, log_level, exclusive>>

\* One write_str of write_fmt.
WriteStr(t) ==
    /\ threads[t].pc = "write"
    /\ threads[t].pieces # << >>
    /\ stdout' = stdout \o Head(threads[t].pieces)
    /\ threads' = [threads EXCEPT ![t].pieces = Tail(@)]
    /\ UNCHANGED <<reported_managers, reported_environments, panicked, sent, mgr_calls,
                   env_calls, exit_calls, last, ncalls, log_level, stdout_lock, exclusive>>

\* The lock guard is dropped at the end of print!; send_message returns.
UnlockStdout(t) ==
    /\ threads[t].pc = "write"
    /\ threads[t].pieces = << >>
    /\ stdout_lock' = None
    /\ sent' = Append(sent, Unwrap(threads[t].message))
    /\ threads' = [threads EXCEPT ![t] = Idle]
    /\ UNCHANGED <<reported_managers, reported_environments, stdout, panicked, mgr_calls,
                   env_calls, exit_calls, last, ncalls, log_level, exclusive>>

NextWriters ==
    \E t \in Writers :
        \/ Serialize(t)
        \/ LockStdout(t)
        \/ WriteStr(t)
        \/ UnlockStdout(t)

SpecWriters == InitWriters /\ [][NextWriters]_vars

----------------------------------------------------------------------------

(* Concurrent callers of the dispatcher.  The methods take &mut self, so a     *)
(* call has the dispatcher to itself (exclusive); with the borrow circumvented *)
(* the statements of two calls interleave.  The statements are taken as        *)
(* atomic, which is one of the outcomes unsynchronized access can have.        *)

\* Number of calls in the runs explored.
MaxRaceCalls == 2

Callers == {"c1", "c2"}

\* Two managers at "/a" that differ in version and tool; an environment with
\* the interpreter "/a" and nothing else, and one with that interpreter that
\* is owned by the first manager.
RaceManagers == {EnvManager(PathA, None, "Conda"), EnvManager(PathA, Some(Version3), "Pyenv")}
RaceEnvironments ==
    {PythonEnvironment(None, Some(PathA), "System", None, None, None, None, None),
     PythonEnvironment(None, Some(PathA), "Conda", None, Some(PathB), None,
                       Some(EnvManager(PathA, None, "Conda")), None)}

IdleCaller == [pc |-> "idle", mgr |-> None, env |-> None, key |-> None]

\* A faulty variant of the borrow: a call may start while another is running.
MayEnterAlways == TRUE

\* &mut self: with the exclusive borrow a call starts only when no other call
\* is running.
MayEnter == exclusive => \A t \in Callers : threads[t].pc = "idle"

InitRace ==
    /\ Fresh
    /\ threads = [t \in Callers |-> IdleCaller]
    /\ exclusive \in BOOLEAN

\* What a step of a caller leaves alone besides the dispatcher and the channel.
CallerFrame == UNCHANGED <<env_calls, exit_calls, last, log_level, stdout_lock, exclusive>>
DispatcherFrame ==
    UNCHANGED <<reported_managers, reported_environments, stdout, panicked, sent, mgr_calls>>

\* The caller goes on at pc, or returns.
Goto(t, pc) == threads' = [threads EXCEPT ![t].pc = pc]
Return(t) == threads' = [threads EXCEPT ![t] = IdleCaller]

\* report_environment_manager is called: get_manager_key.
CallReportEnvironmentManager(t) ==
    \E m \in RaceManagers :
        /\ threads[t].pc = "idle"
        /\ ncalls < MaxRaceCalls
        /\ MayEnter
        /\ threads' = [threads EXCEPT ![t] =
               IF IsSome(get_manager_key(m))
               THEN [pc |-> "m_check", mgr |-> Some(m), env |-> None, key |-> get_manager_key(m)]
               ELSE IdleCaller]
        /\ ncalls' = ncalls + 1
        /\ DispatcherFrame
        /\ CallerFrame

\* if !self.reported_managers.contains(&key)
CheckManager(t) ==
    /\ threads[t].pc = "m_check"
    /\ IF Unwrap(threads[t].key) \in reported_managers THEN Return(t) ELSE Goto(t, "m_insert")
    /\ DispatcherFrame
    /\ CallerFrame
    /\ UNCHANGED ncalls

\* self.reported_managers.insert(key)
InsertManager(t) ==
    /\ threads[t].pc = "m_insert"
    /\ reported_managers' = reported_managers \cup {Unwrap(threads[t].key)}
    /\ Goto(t, "m_send")
    /\ UNCHANGED <<reported_environments, stdout, panicked, sent, mgr_calls, ncalls>>
    /\ CallerFrame

\* send_message(EnvManagerMessage::new(env))
SendManager(t) ==
    /\ threads[t].pc = "m_send"
    /\ Leave(send_message(Cur, EnvManagerMessage(Unwrap(threads[t].mgr))))
    /\ Return(t)
    /\ CallerFrame
    /\ UNCHANGED ncalls

\* report_environment is called: get_environment_key.
CallReportEnvironment(t) ==
    \E e \in RaceEnvironments :
        /\ threads[t].pc = "idle"
        /\ ncalls < MaxRaceCalls
        /\ MayEnter
        /\ ~get_environment_key(e).panic
        /\ threads' = [threads EXCEPT ![t] =
               IF IsSome(get_environment_key(e).v)
               THEN [pc |-> "e_check", mgr |-> None, env |-> Some(e),
                     key |-> get_environment_key(e).v]
               ELSE IdleCaller]
        /\ ncalls' = ncalls + 1
        /\ DispatcherFrame
        /\ CallerFrame

\* if !self.reported_environments.contains(&key)
CheckEnvironment(t) ==
    /\ threads[t].pc = "e_check"
    /\ IF Unwrap(threads[t].key) \in reported_environments
       THEN Goto(t, "e_manager")
       ELSE Goto(t, "e_insert")
    /\ DispatcherFrame
    /\ CallerFrame
    /\ UNCHANGED ncalls

\* self.reported_environments.insert(key)
InsertEnvironment(t) ==
    /\ threads[t].pc = "e_insert"
    /\ reported_environments' = reported_environments \cup {Unwrap(threads[t].key)}
    /\ Goto(t, "e_send")
    /\ UNCHANGED <<reported_managers, stdout, panicked, sent, mgr_calls, ncalls>>
    /\ CallerFrame

\* send_message(PythonEnvironmentMessage::new(env.clone()))
SendEnvironment(t) ==
    /\ threads[t].pc = "e_send"
    /\ Leave(send_message(Cur, PythonEnvironmentMessage(Unwrap(threads[t].env))))
    /\ Goto(t, "e_manager")
    /\ CallerFrame
    /\ UNCHANGED ncalls

\* if let Some(manager) = env.env_manager { self.report_environment_manager(manager) }
ForwardManager(t) ==
    /\ threads[t].pc = "e_manager"
    /\ LET o == Unwrap(threads[t].env).env_manager IN
       threads' = [threads EXCEPT ![t] =
           IF IsSome(o) /\ IsSome(get_manager_key(ValManager(o)))
           THEN [pc |-> "m_check", mgr |-> o, env |-> None, key |-> get_manager_key(Unwrap(o))]
           ELSE IdleCaller]
    /\ DispatcherFrame
    /\ CallerFrame
    /\ UNCHANGED ncalls

NextRace ==
    \E t \in Callers :
        \/ CallReportEnvironmentManager(t)
        \/ CheckManager(t)
        \/ InsertManager(t)
        \/ SendManager(t)
        \/ CallReportEnvironment(t)
        \/ CheckEnvironment(t)
        \/ InsertEnvironment(t)
        \/ SendEnvironment(t)
        \/ ForwardManager(t)

SpecRace == InitRace /\ [][NextRace]_vars

----------------------------------------------------------------------------

(* Reading the history and the channel *)

\* The number of envManager envelopes written for the manager key k.
ManagerEnvelopes(k) ==
    Cardinality({i \in 1..Len(sent) :
        /\ sent[i].method = M_envManager
        /\ get_manager_key(Unwrap(sent[i].params)) = Some(k)})

\* The number of pythonEnvironment envelopes written for the environment key k.
EnvironmentEnvelopes(k) ==
    Cardinality({i \in 1..Len(sent) :
        /\ sent[i].method = M_pythonEnvironment
        /\ get_environment_key(Unwrap(sent[i].params)).v = Some(k)})

\* The number of exit envelopes written.
ExitEnvelopes == Cardinality({i \in 1..Len(sent) : sent[i].method = M_exit})

\* The paths that are text.
TextPaths == {p \in Paths : IsSome(to_str(p))}

\* The last call, when it was of the given method.
LastIs(op) == last.op = op
LastEnv == Unwrap(last.env)

\* The key of an environment that has one.
HasKey(e) == ~get_environment_key(e).panic /\ IsSome(get_environment_key(e).v)
KeyOf(e) == Unwrap(get_environment_key(e).v)

----------------------------------------------------------------------------
(* C1 *)

\* C1: for every manager path that is text, the number of envManager envelopes
\* written for it is one if report_environment_manager has been invoked with
\* that path (directly or from report_environment), and zero otherwise.
C1_OneManagerEnvelopePerPath ==
    \A p \in TextPaths :
        ManagerEnvelopes(p) = IF mgr_calls[p] > 0 THEN 1 ELSE 0

\* report_environment_manager has run at least twice with "/é", the last time
\* from report_environment, and one envelope stands for it.
C1_Witness ==
    /\ LastIs("report_environment")
    /\ IsSome(LastEnv.env_manager)
    /\ Unwrap(LastEnv.env_manager).executable_path = PathB
    /\ mgr_calls[PathB] >= 2
    /\ ManagerEnvelopes(PathB) = 1
    /\ mgr_calls[PathA] = 0
    /\ ManagerEnvelopes(PathA) = 0

----------------------------------------------------------------------------
(* C2 *)

\* The environments whose interpreter path is text.
HasTextInterpreter(e) ==
    IsSome(e.python_executable_path) /\ IsSome(to_str(Unwrap(e.python_executable_path)))

\* What C2 says of an environment e that report_environment has been called with.
OneEnvelopeFor(e) ==
    /\ EnvironmentEnvelopes(KeyOf(e)) = 1
    /\ (IsSome(e.env_manager) /\ IsSome(get_manager_key(Unwrap(e.env_manager))))
           => ManagerEnvelopes(Unwrap(get_manager_key(Unwrap(e.env_manager)))) = 1

\* C2 as claimed: every environment with a text interpreter path that
\* report_environment was called with has exactly one pythonEnvironment
\* envelope for its key and, if it has an owning manager with a key, exactly
\* one envManager envelope for that manager's key.
C2_Original ==
    \A e \in env_calls : HasTextInterpreter(e) => OneEnvelopeFor(e)

\* C2 amended: the same, for the environments all of whose paths (environment
\* root, prefix path, project path, the owning manager's location) are text,
\* so that the envelope can be serialized.
C2_OneEnvelopePerEnvironment ==
    \A e \in env_calls :
        (HasTextInterpreter(e) /\ PythonEnvironmentSerializable(e)) => OneEnvelopeFor(e)

\* The same environment, owned by a manager, has been reported at least twice.
C2_Witness ==
    /\ LastIs("report_environment")
    /\ HasTextInterpreter(LastEnv)
    /\ PythonEnvironmentSerializable(LastEnv)
    /\ IsSome(LastEnv.env_manager)
    /\ mgr_calls[Unwrap(LastEnv.env_manager).executable_path] >= 2
    /\ env_calls = {LastEnv}
    /\ ncalls = 3
    /\ ExitEnvelopes = 1
    /\ Len(sent) = 3

----------------------------------------------------------------------------
(* C3 *)

\* What a call leaves alone when it does nothing at all.
NothingHappens ==
    UNCHANGED <<reported_managers, reported_environments, stdout, sent, panicked, mgr_calls>>

NoIdentityPath(e) == IsNone(e.python_executable_path) /\ IsNone(e.env_path)

\* C3: a report_environment call with an environment that has neither an
\* interpreter path nor an environment root writes nothing, does not panic,
\* leaves both key sets as they were and does not invoke
\* report_environment_manager, whatever its owning manager.
C3_NoKeyNoEffect ==
    [][(last'.op = "report_environment" /\ NoIdentityPath(Unwrap(last'.env)))
           => NothingHappens]_vars

\* Such an environment, owned by a manager that was never reported, has just
\* been reported.
C3_Witness ==
    /\ LastIs("report_environment")
    /\ NoIdentityPath(LastEnv)
    /\ IsSome(LastEnv.env_manager)
    /\ IsSome(get_manager_key(Unwrap(LastEnv.env_manager)))
    /\ mgr_calls[Unwrap(LastEnv.env_manager).executable_path] = 0
    /\ Unwrap(LastEnv.env_manager).executable_path \notin reported_managers
    /\ ~panicked

----------------------------------------------------------------------------
(* C4 *)

\* The identity-bearing path of the last call's argument is present and is
\* not text.
ManagerPathNotText(m) == IsNone(to_str(m.executable_path))
InterpreterNotText(e) ==
    IsSome(e.python_executable_path) /\ IsNone(to_str(Unwrap(e.python_executable_path)))
RootNotText(e) ==
    /\ IsNone(e.python_executable_path)
    /\ IsSome(e.env_path)
    /\ IsNone(to_str(Unwrap(e.env_path)))

\* C4 as claimed: a report whose identity-bearing path is present and is not
\* text returns normally (no panic), writes nothing and leaves both key sets
\* as they were.
C4_Claim ==
    [][(\/ (last'.op = "report_environment_manager"
              /\ ManagerPathNotText(Unwrap(last'.mgr)))
        \/ (last'.op = "report_environment"
              /\ (InterpreterNotText(Unwrap(last'.env)) \/ RootNotText(Unwrap(last'.env)))))
           => (NothingHappens /\ ~panicked')]_vars

\* What does hold of the code: the manager's path and the interpreter path go
\* through to_str()?, and those reports are dropped without a panic.
C4_DroppedByQuestionMark ==
    [][(\/ (last'.op = "report_environment_manager"
              /\ ManagerPathNotText(Unwrap(last'.mgr)))
        \/ (last'.op = "report_environment" /\ InterpreterNotText(Unwrap(last'.env))))
           => (reported_managers' = reported_managers
               /\ reported_environments' = reported_environments
               /\ stdout' = stdout /\ sent' = sent /\ ~panicked')]_vars

\* The environment root goes through to_str().unwrap(): the call panics.
C4_RootPanics ==
    [][(last'.op = "report_environment" /\ RootNotText(Unwrap(last'.env)))
           => panicked']_vars

----------------------------------------------------------------------------
(* C5 *)

\* An earlier report_environment call had an identity key equal to the text of
\* the probe's executable path.
Matching(probe) ==
    /\ IsSome(to_str(probe.executable))
    /\ \E e \in env_calls : HasKey(e) /\ KeyOf(e) = Unwrap(to_str(probe.executable))

\* C5: in every state, was_environment_reported answers TRUE for a probe iff
\* an earlier report_environment call had a key equal to the text of the
\* probe's path; and that is what the call, when made, returned.
C5_LookupMatchesReports ==
    /\ \A probe \in Probes : was_environment_reported(Cur, probe) = Matching(probe)
    /\ LastIs("was_environment_reported") => (last.ret = Matching(Unwrap(last.probe)))

\* was_environment_reported has answered TRUE for "/é", and would answer FALSE
\* for "/a", which only a manager was reported at.
C5_Witness ==
    /\ LastIs("was_environment_reported")
    /\ Unwrap(last.probe).executable = PathB
    /\ last.ret = TRUE
    /\ PathA \in reported_managers
    /\ ~was_environment_reported(Cur, [executable |-> PathA])

----------------------------------------------------------------------------
(* C6 *)

\* The state with the channel and the history emptied: what a call does on it
\* is what the call does whatever was written before.
NoHistory == [Cur EXCEPT !.out = << >>, !.sent = << >>]

\* The step did to the key sets and wrote to the channel what st says.
DidAsOn(st) ==
    /\ reported_managers' = st.rm
    /\ reported_environments' = st.re
    /\ sent' = sent \o st.sent
    /\ stdout' = stdout \o st.out
    /\ panicked' = st.panicked

\* What an exit step does.
ExitStep ==
    /\ sent' = Append(sent, ExitMessage)
    /\ stdout' = stdout \o Frame(SerMessage(ExitMessage))
    /\ reported_managers' = reported_managers
    /\ reported_environments' = reported_environments
    /\ ~panicked'

\* What the other calls do does not depend on what was written before them.
SameAsWithoutExit ==
    /\ (last'.op = "report_environment_manager") =>
           DidAsOn(report_environment_manager(NoHistory, Unwrap(last'.mgr)))
    /\ (last'.op = "report_environment") =>
           DidAsOn(report_environment(NoHistory, Unwrap(last'.env)))
    /\ (last'.op = "was_environment_reported") =>
           (last'.ret = was_environment_reported(NoHistory, Unwrap(last'.probe)))

\* C6: every exit call writes exactly one exit envelope and leaves both key
\* sets as they were, so that k calls have written k exit envelopes; and no
\* later call is refused or changed by the exit calls before it: it does what
\* it does on the same key sets with nothing written yet.
C6_ExitEmitsOnePerCall ==
    [][/\ (last'.op = "exit") => ExitStep
       /\ ExitEnvelopes' = exit_calls'
       /\ SameAsWithoutExit]_vars

\* exit has been called twice, and then a report has written its envelope.
C6_Witness ==
    /\ exit_calls = 2
    /\ ExitEnvelopes = 2
    /\ LastIs("report_environment_manager")
    /\ Len(sent) = 3
    /\ sent[3].method = M_envManager

----------------------------------------------------------------------------
(* C7 *)

IsDigit(b) == b >= 48 /\ b <= 57

\* The decimal number that starts at position i of bs, after the digits in acc:
\* its value and the position after its last digit.
RECURSIVE ReadNumber(_, _, _)
ReadNumber(bs, i, acc) ==
    IF i <= Len(bs) /\ IsDigit(bs[i])
    THEN ReadNumber(bs, i + 1, 10 * acc + (bs[i] - 48))
    ELSE [value |-> acc, next |-> i]

\* bs has the bytes of pat at position i.
HasAt(bs, i, pat) ==
    /\ i + Len(pat) - 1 <= Len(bs)
    /\ SubSeq(bs, i, i + Len(pat) - 1) = pat

\* A reader of the channel that parses by Content-Length, from position i: the
\* bodies of the frames when bs[i..] is a sequence of whole frames, each body as
\* long as its header declares; ok is FALSE when it is not (a header that does
\* not parse, a body cut short, bytes after the last body).
RECURSIVE ReadFrames(_, _)
ReadFrames(bs, i) ==
    IF i > Len(bs) THEN [ok |-> TRUE, bodies |-> << >>]
    ELSE IF ~HasAt(bs, i, HeaderPrefix) \/ ~IsDigit(bs[i + Len(HeaderPrefix)])
         THEN [ok |-> FALSE, bodies |-> << >>]
    ELSE LET n == ReadNumber(bs, i + Len(HeaderPrefix), 0)
             start == n.next + Len(HeaderRest)
         IN  IF ~HasAt(bs, n.next, HeaderRest) \/ start + n.value - 1 > Len(bs)
             THEN [ok |-> FALSE, bodies |-> << >>]
             ELSE LET rest == ReadFrames(bs, start + n.value) IN
                  [ok |-> rest.ok,
                   bodies |-> <<SubSeq(bs, start, start + n.value - 1)>> \o rest.bodies]

\* What the reader gets from the channel.
Received == ReadFrames(stdout, 1)

\* C7: the channel is a sequence of whole frames, one for each message
\* send_message has written and in that order, and the number of bytes each
\* header declares is the byte length of the message's serialized body: the
\* reader that takes as many bytes as declared gets exactly that body, and
\* the next frame, or the end of the channel, follows it at once.
C7_ContentLengthIsByteLength ==
    LET r == Received IN
    /\ r.ok
    /\ Len(r.bodies) = Len(sent)
    /\ \A i \in 1..Len(sent) :
           /\ to_string(sent[i]).ok
           /\ r.bodies[i] = to_string(sent[i]).v

\* Three frames are on the channel, one of them with a body that has fewer
\* characters than bytes, and a frame follows it.
C7_Witness ==
    /\ Received.ok
    /\ Len(Received.bodies) = 3
    /\ CharCount(Received.bodies[1]) < Len(Received.bodies[1])
    /\ sent[1].method = M_pythonEnvironment
    /\ sent[2].method = M_envManager
    /\ sent[3].method = M_exit

----------------------------------------------------------------------------
(* C8 *)

\* "key":
KeyPat(k) == <<34>> \o k \o <<34, 58>>

\* The first position of pat in text, 0 when it does not occur.
FirstAt(text, pat) ==
    LET at == {i \in 1..(Len(text) - Len(pat) + 1) :
                  /\ text[i] = pat[1]
                  /\ text[i + Len(pat) - 1] = pat[Len(pat)]
                  /\ SubSeq(text, i, i + Len(pat) - 1) = pat}
    IN  IF at = {} THEN 0 ELSE CHOOSE i \in at : \A j \in at : i <= j

Contains(text, pat) == FirstAt(text, pat) > 0

\* The body of a pythonEnvironment envelope up to its "envManager" key (the
\* fields of the environment before its manager), and from that key on.
BeforeManager(body) ==
    LET at == FirstAt(body, KeyPat(K_envManager)) IN
    IF at = 0 THEN body ELSE SubSeq(body, 1, at - 1)
FromManager(body) ==
    LET at == FirstAt(body, KeyPat(K_envManager)) IN
    IF at = 0 THEN << >> ELSE SubSeq(body, at, Len(body))

\* The optional fields of a message written as body: for each, the part of the
\* body where its key belongs, the key, and whether the field is absent.
OptionalFields(message, body) ==
    IF message.method = M_exit
    THEN {[in |-> body, key |-> K_params, absent |-> IsNone(message.params)]}
    ELSE IF message.method = M_envManager
    THEN {[in |-> body, key |-> K_version,
           absent |-> IsNone(Unwrap(message.params).version)]}
    ELSE LET e == Unwrap(message.params)
             before == BeforeManager(body)
             from == FromManager(body)
         IN  {[in |-> before, key |-> K_name, absent |-> IsNone(e.name)],
              [in |-> before, key |-> K_pythonExecutablePath,
               absent |-> IsNone(e.python_executable_path)],
              [in |-> before, key |-> K_version, absent |-> IsNone(e.version)],
              [in |-> before, key |-> K_envPath, absent |-> IsNone(e.env_path)],
              [in |-> before, key |-> K_sysPrefixPath, absent |-> IsNone(e.sys_prefix_path)],
              [in |-> body, key |-> K_envManager, absent |-> IsNone(e.env_manager)],
              [in |-> body, key |-> K_pythonRunCommand,
               absent |-> IsNone(e.python_run_command)],
              [in |-> body, key |-> K_projectPath, absent |-> IsNone(e.project_path)]}
             \cup (IF IsSome(e.env_manager)
                   THEN {[in |-> from, key |-> K_version,
                          absent |-> IsNone(Unwrap(e.env_manager).version)]}
                   ELSE {})

\* The envelopes written, each with the body the reader received for it.
Envelopes ==
    LET bodies == Received.bodies IN
    {[message |-> sent[i], body |-> bodies[i]] :
        i \in 1..(IF Len(sent) <= Len(bodies) THEN Len(sent) ELSE Len(bodies))}

\* C8 as claimed: in the body of every envelope, the key of an optional field
\* that is absent does not occur.
C8_Original ==
    \A x \in Envelopes : \A f \in OptionalFields(x.message, x.body) :
        f.absent => ~Contains(f.in, KeyPat(f.key))

\* C8 amended: in the body of every envelope every optional field is written;
\* one that is absent is written with the value null, one that is present
\* with a value that is not null.
C8_AbsentIsNull ==
    \A x \in Envelopes : \A f \in OptionalFields(x.message, x.body) :
        LET at == FirstAt(f.in, KeyPat(f.key)) IN
        /\ at > 0
        /\ f.absent <=> HasAt(f.in, at + Len(KeyPat(f.key)), NullLit)

\* On the channel: an environment that has its root and no other optional
\* field, an environment that has every field but the project path and is
\* owned by a manager without version, and that manager.
C8_Witness ==
    /\ Len(sent) = 3
    /\ Len(Received.bodies) = 3
    /\ \E x \in Envelopes :
           /\ x.message.method = M_pythonEnvironment
           /\ \A f \in OptionalFields(x.message, x.body) :
                  f.absent <=> f.key # K_envPath
    /\ \E x \in Envelopes :
           /\ x.message.method = M_pythonEnvironment
           /\ \A f \in OptionalFields(x.message, x.body) :
                  f.absent <=> \/ f.in = FromManager(x.body) /\ f.key = K_version
                               \/ f.key = K_projectPath
    /\ \E x \in Envelopes :
           /\ x.message.method = M_envManager
           /\ IsNone(Unwrap(x.message.params).version)

----------------------------------------------------------------------------
(* C9 *)

\* The last call was report_environment with an environment that has a key and
\* an owning manager.
KeyedWithManager(l) ==
    /\ l.op = "report_environment"
    /\ HasKey(Unwrap(l.env))
    /\ IsSome(Unwrap(l.env).env_manager)

ManagerOf(l) == Unwrap(Unwrap(l.env).env_manager)

\* The step invoked report_environment_manager once, with the manager of the
\* environment.
Forwarded(l) ==
    mgr_calls' = [mgr_calls EXCEPT ![ManagerOf(l).executable_path] = @ + 1]

\* Re-reporting a known environment with a manager that has a key and was not
\* reported: one envManager envelope, no pythonEnvironment envelope.
KnownWithNewManager(l) ==
    /\ KeyedWithManager(l)
    /\ KeyOf(Unwrap(l.env)) \in reported_environments
    /\ IsSome(get_manager_key(ManagerOf(l)))
    /\ Unwrap(get_manager_key(ManagerOf(l))) \notin reported_managers

OnlyManagerEnvelope(l) ==
    /\ sent' = Append(sent, EnvManagerMessage(ManagerOf(l)))
    /\ stdout' = stdout \o Frame(SerMessage(EnvManagerMessage(ManagerOf(l))))

\* C9 as claimed: every report_environment call with an environment that has
\* a key and an owning manager forwards the manager to
\* report_environment_manager, whether the key was in the set or not; and for
\* a known environment with a manager not yet reported it writes exactly the
\* manager's envelope.
C9_Original ==
    [][/\ KeyedWithManager(last') => Forwarded(last')
       /\ KnownWithNewManager(last') => OnlyManagerEnvelope(last')]_vars

\* C9 amended: the same, for the calls that do not stop in send_message: the
\* environment's key is already in the set, or all the paths of the
\* environment are text so that its own envelope can be serialized.
C9_CascadeIsUnconditional ==
    [][/\ (/\ KeyedWithManager(last')
           /\ \/ KeyOf(Unwrap(last'.env)) \in reported_environments
              \/ PythonEnvironmentSerializable(Unwrap(last'.env)))
          => Forwarded(last')
       /\ KnownWithNewManager(last') => OnlyManagerEnvelope(last')]_vars

\* A system environment without manager was reported; then a conda
\* environment with the same key, owned by a manager never reported: the
\* channel has the first environment and the manager.
C9_Witness ==
    /\ ncalls = 2
    /\ Len(sent) = 2
    /\ KeyedWithManager(last)
    /\ sent[1].method = M_pythonEnvironment
    /\ Unwrap(sent[1].params) # LastEnv
    /\ KeyOf(Unwrap(sent[1].params)) = KeyOf(LastEnv)
    /\ sent[2] = EnvManagerMessage(ManagerOf(last))
    /\ mgr_calls[ManagerOf(last).executable_path] = 1

----------------------------------------------------------------------------
(* C10 *)

\* C10: every step leaves each key set a superset of what it was.
C10_SetsOnlyGrow ==
    [][/\ reported_managers \subseteq reported_managers'
       /\ reported_environments \subseteq reported_environments']_vars

\* Both sets have grown to two keys, and a lookup and an exit were among the
\* calls (with MaxCalls calls: a report_environment that cascades, a second
\* report and one other call).
C10_Witness ==
    /\ Cardinality(reported_managers) >= 1
    /\ Cardinality(reported_environments) = 2
    /\ LastIs("exit")

----------------------------------------------------------------------------
(* C14 *)

\* The number of envelopes of a method written so far.
EnvelopesOf(method) == Cardinality({i \in 1..Len(sent) : sent[i].method = method})

\* The counts of the manager and exit envelopes, and the keys of the managers.
ManagerAndExitCounts ==
    /\ EnvelopesOf(M_envManager) = Cardinality(reported_managers)
    /\ EnvelopesOf(M_exit) = exit_calls
    /\ \A k \in Paths : k \in reported_managers <=> ManagerEnvelopes(k) = 1

\* The count of the environment envelopes, and the keys of the environments.
EnvironmentCounts ==
    /\ EnvelopesOf(M_pythonEnvironment) = Cardinality(reported_environments)
    /\ \A k \in Paths : k \in reported_environments <=> EnvironmentEnvelopes(k) = 1

\* The state a report_environment call leaves when unwrap() panicked on the
\* serialization of its envelope: the key was inserted, nothing was written.
InsertedThenPanicked ==
    /\ LastIs("report_environment")
    /\ HasKey(LastEnv)
    /\ ~PythonEnvironmentSerializable(LastEnv)
    /\ KeyOf(LastEnv) \in reported_environments
    /\ EnvironmentEnvelopes(KeyOf(LastEnv)) = 0
    /\ EnvelopesOf(M_pythonEnvironment) = Cardinality(reported_environments) - 1
    /\ \A k \in Paths \ {KeyOf(LastEnv)} :
           k \in reported_environments <=> EnvironmentEnvelopes(k) = 1

\* C14 as stated: in every reachable state the envManager envelopes are as
\* many as the keys of reported_managers, the pythonEnvironment envelopes as
\* many as the keys of reported_environments, the exit envelopes as many as the
\* calls of exit, and a key is in a set iff exactly one envelope was written
\* for it.
C14_Original == ManagerAndExitCounts /\ EnvironmentCounts

\* C14 amended: the counts of the manager and exit envelopes hold in every
\* reachable state; those of the environment envelopes hold in every state in
\* which no call has panicked, and in the state a panic in the serialization
\* of an environment leaves, the key of that environment is in the set with no
\* envelope, and every other key has exactly one.
C14_CountsMatchUnlessPanicked ==
    /\ ManagerAndExitCounts
    /\ ~panicked => EnvironmentCounts
    /\ (panicked /\ ~EnvironmentCounts) => InsertedThenPanicked

\* An environment and its manager were reported twice and exit was called:
\* one envelope of each method stands on the channel.
C14_Witness ==
    /\ ~panicked
    /\ Cardinality(reported_managers) = 1
    /\ Cardinality(reported_environments) = 1
    /\ exit_calls = 1
    /\ Len(sent) = 3
    /\ \E p \in Paths : mgr_calls[p] >= 2

----------------------------------------------------------------------------
(* C15 *)

\* The environments without interpreter path whose root is text.
HasTextRootOnly(e) ==
    /\ IsNone(e.python_executable_path)
    /\ IsSome(e.env_path)
    /\ IsSome(to_str(Unwrap(e.env_path)))

\* What get_environment_key returns for e, by the fields of e.
KeyByPrecedence(e) ==
    LET k == get_environment_key(e) IN
    /\ HasTextInterpreter(e) =>
           (~k.panic /\ k.v = Some(Unwrap(e.python_executable_path)))
    /\ HasTextRootOnly(e) => (~k.panic /\ k.v = Some(Unwrap(e.env_path)))
    /\ NoIdentityPath(e) => (~k.panic /\ k.v = None)

\* Two environments the dispatcher was called with count as one or as two.
DeduplicatedByKey(e1, e2) ==
    /\ (/\ HasTextInterpreter(e1)
        /\ HasTextInterpreter(e2)
        /\ e1.python_executable_path = e2.python_executable_path)
           => EnvironmentEnvelopes(Unwrap(e1.python_executable_path)) = 1
    /\ (HasTextRootOnly(e1) /\ HasTextRootOnly(e2)) =>
           IF e1.env_path = e2.env_path
           THEN EnvironmentEnvelopes(Unwrap(e1.env_path)) = 1
           ELSE /\ KeyOf(e1) # KeyOf(e2)
                /\ EnvironmentEnvelopes(Unwrap(e1.env_path)) = 1
                /\ EnvironmentEnvelopes(Unwrap(e2.env_path)) = 1

\* C15: for every environment report_environment was called with, the key is
\* the text of the interpreter path when there is one, otherwise the text of
\* the environment root when there is one, otherwise nothing; two different
\* environments with the same interpreter path have one envelope between them
\* whatever their roots, and two without interpreter path have one envelope
\* between them when their roots are equal and one each when they differ.
C15_KeyPrecedence ==
    /\ \A e \in env_calls : KeyByPrecedence(e)
    /\ \A e1 \in env_calls : \A e2 \in env_calls \ {e1} : DeduplicatedByKey(e1, e2)

\* Two environments with the interpreter "/a" and different roots, and one
\* without interpreter at the root "/é", were reported: two envelopes.
C15_Witness ==
    /\ ~panicked
    /\ \E e1 \in env_calls : \E e2 \in env_calls \ {e1} : \E e3 \in env_calls \ {e1, e2} :
           /\ HasTextInterpreter(e1)
           /\ HasTextInterpreter(e2)
           /\ e1.python_executable_path = e2.python_executable_path
           /\ e1.env_path # e2.env_path
           /\ IsSome(e1.env_path)
           /\ IsSome(e2.env_path)
           /\ HasTextRootOnly(e3)
           /\ KeyOf(e3) # KeyOf(e1)
    /\ Len(sent) = 2
    /\ sent[1].method = M_pythonEnvironment
    /\ sent[2].method = M_pythonEnvironment

----------------------------------------------------------------------------
(* C16 *)

\* The step is a call of was_environment_reported.
LookupStep == ncalls' = ncalls + 1 /\ last'.op = "was_environment_reported"

\* C16: a call of was_environment_reported leaves both key sets as they were,
\* writes nothing to the channel, and returns false when the executable path
\* of the probe is not text.
C16_LookupIsPure ==
    [][LookupStep =>
          /\ reported_managers' = reported_managers
          /\ reported_environments' = reported_environments
          /\ stdout' = stdout
          /\ sent' = sent
          /\ panicked' = panicked
          /\ last'.ret = was_environment_reported(Cur, Unwrap(last'.probe))
          /\ IsNone(to_str(Unwrap(last'.probe).executable)) => (last'.ret = FALSE)]_vars

\* After an environment and its manager were reported, a lookup of the path
\* that is not text answered false, with both sets and the channel in place.
C16_Witness ==
    /\ LastIs("was_environment_reported")
    /\ Unwrap(last.probe).executable = PathX
    /\ last.ret = FALSE
    /\ reported_environments # {}
    /\ reported_managers # {}
    /\ Len(sent) = 2

----------------------------------------------------------------------------
(* C18 *)

\* The positions of the messages the step has written.
Written == (Len(sent) + 1)..Len(sent')

\* A call of report_environment_manager: the environment keys stay, only
\* envManager envelopes are written, and a manager whose key is not in
\* reported_managers is written whether reported_environments has it or not.
ManagerStepIgnoresEnvironments ==
    LET m == Unwrap(last'.mgr) IN
    /\ reported_environments' = reported_environments
    /\ \A i \in Written : sent'[i].method = M_envManager
    /\ (IsSome(get_manager_key(m)) /\ Unwrap(get_manager_key(m)) \notin reported_managers)
           => sent' = Append(sent, EnvManagerMessage(m))

\* A call of report_environment with an environment that has a key and can be
\* serialized: its envelope is written iff reported_environments does not have
\* the key, whether reported_managers has it or not, and the only manager key
\* that can be added is that of the owning manager.
EnvironmentStepIgnoresManagers ==
    LET e == Unwrap(last'.env) IN
    (HasKey(e) /\ PythonEnvironmentSerializable(e)) =>
        /\ (KeyOf(e) \notin reported_environments)
               <=> (/\ Len(sent') > Len(sent)
                    /\ sent'[Len(sent) + 1] = PythonEnvironmentMessage(e))
        /\ reported_environments' = reported_environments \cup {KeyOf(e)}
        /\ \A k \in reported_managers' \ reported_managers :
               /\ IsSome(e.env_manager)
               /\ get_manager_key(Unwrap(e.env_manager)) = Some(k)

\* A call of was_environment_reported answers from reported_environments alone.
LookupIgnoresManagers ==
    LET key == to_str(Unwrap(last'.probe).executable) IN
    last'.ret = (IsSome(key) /\ Unwrap(key) \in reported_environments)

\* C18: the keys of the managers and the keys of the environments are two
\* separate spaces: a manager report neither suppresses nor records an
\* environment with the same path, an environment report neither suppresses
\* nor records a manager with the same path, and the lookup is answered from
\* the environment keys alone.
C18_KeySpacesAreIndependent ==
    [][/\ last'.op = "report_environment_manager" => ManagerStepIgnoresEnvironments
       /\ last'.op = "report_environment" => EnvironmentStepIgnoresManagers
       /\ last'.op = "was_environment_reported" => LookupIgnoresManagers]_vars

\* A manager at "/a" was reported, then an environment whose interpreter is
\* "/a": both envelopes were written and each set has the key; the lookup of
\* "/é", which no environment has, answers false.
C18_Witness ==
    /\ PathA \in reported_managers
    /\ PathA \in reported_environments
    /\ Len(sent) = 2
    /\ sent[1].method = M_envManager
    /\ sent[2].method = M_pythonEnvironment
    /\ ManagerEnvelopes(PathA) = 1
    /\ EnvironmentEnvelopes(PathA) = 1
    /\ LastIs("was_environment_reported")
    /\ ~last.ret

----------------------------------------------------------------------------
(* C19 *)

\* The frames of the messages sent'[i..], one after the other.
RECURSIVE FramesFrom(_)
FramesFrom(i) ==
    IF i > Len(sent') THEN << >>
    ELSE Frame(SerMessage(sent'[i])) \o FramesFrom(i + 1)

\* The step is a report_environment call that writes the envelope of the
\* environment and the envelope of its manager.
WritesBoth ==
    /\ last'.op = "report_environment"
    /\ Len(sent') = Len(sent) + 2

\* C19: a report_environment call that writes two envelopes writes the one of
\* the environment first and the one of its owning manager second; and every
\* call appends what it writes to the channel, after all that earlier calls
\* have written, so that the frames stand in the order of the calls.
C19_EnvironmentBeforeManager ==
    [][/\ WritesBoth =>
              /\ sent'[Len(sent) + 1] = PythonEnvironmentMessage(Unwrap(last'.env))
              /\ sent'[Len(sent) + 2] = EnvManagerMessage(ManagerOf(last'))
       /\ Len(sent') >= Len(sent)
       /\ SubSeq(sent', 1, Len(sent)) = sent
       /\ stdout' = stdout \o FramesFrom(Len(sent) + 1)]_vars

\* A manager was reported, then an environment with another manager: the
\* channel reads as the manager, the environment, the environment's manager.
C19_Witness ==
    /\ ncalls = 2
    /\ KeyedWithManager(last)
    /\ Len(sent) = 3
    /\ sent[1].method = M_envManager
    /\ sent[2] = PythonEnvironmentMessage(LastEnv)
    /\ sent[3] = EnvManagerMessage(ManagerOf(last))
    /\ sent[1] # sent[3]
    /\ Received.ok
    /\ Received.bodies = <<SerMessage(sent[1]), SerMessage(sent[2]), SerMessage(sent[3])>>

----------------------------------------------------------------------------
(* C20 *)

\* A call of report_environment_manager with a manager that has a key: the
\* first call with the key writes the payload it was given, a later one writes
\* nothing.
FirstManagerWins ==
    LET m == Unwrap(last'.mgr) IN
    IsSome(get_manager_key(m)) =>
        IF Unwrap(get_manager_key(m)) \in reported_managers
        THEN sent' = sent /\ stdout' = stdout
        ELSE /\ sent' = Append(sent, EnvManagerMessage(m))
             /\ stdout' = stdout \o Frame(SerMessage(EnvManagerMessage(m)))

\* A call of report_environment with an environment that has a key: the first
\* call with the key writes the payload it was given when it can be
\* serialized, a later one writes no pythonEnvironment envelope; the manager of
\* the environment is subject to the same rule.
FirstEnvironmentWins ==
    LET e == Unwrap(last'.env) IN
    HasKey(e) =>
        /\ IF KeyOf(e) \in reported_environments
           THEN \A i \in Written : sent'[i].method # M_pythonEnvironment
           ELSE PythonEnvironmentSerializable(e) =>
                    /\ Len(sent') > Len(sent)
                    /\ sent'[Len(sent) + 1] = PythonEnvironmentMessage(e)
                    /\ \A i \in Written \ {Len(sent) + 1} :
                           sent'[i].method # M_pythonEnvironment
        /\ \A i \in Written :
               sent'[i].method = M_envManager =>
                   /\ IsSome(e.env_manager)
                   /\ sent'[i] = EnvManagerMessage(Unwrap(e.env_manager))
                   /\ Unwrap(get_manager_key(Unwrap(e.env_manager))) \notin reported_managers

\* C20: the envelope written for a key carries the payload of the first report
\* made with that key: a call with a new key writes its own payload, a call
\* with a known key writes nothing for that key whatever its other fields,
\* and no call changes what is on the channel already.
C20_FirstReportWins ==
    [][/\ last'.op = "report_environment_manager" => FirstManagerWins
       /\ last'.op = "report_environment" => FirstEnvironmentWins
       /\ SubSeq(sent', 1, Len(sent)) = sent
       /\ SubSeq(stdout', 1, Len(stdout)) = stdout]_vars

\* The environment with the interpreter "/a" was reported, and then another
\* one with that interpreter and other fields: the channel holds the first.
C20_Witness ==
    /\ ncalls = 2
    /\ LastIs("report_environment")
    /\ HasKey(LastEnv)
    /\ Len(sent) = 1
    /\ sent[1].method = M_pythonEnvironment
    /\ KeyOf(Unwrap(sent[1].params)) = KeyOf(LastEnv)
    /\ Unwrap(sent[1].params) # LastEnv
    /\ Received.bodies = <<SerMessage(sent[1])>>

----------------------------------------------------------------------------
(* C12 *)

\* The step is a log call, and the record it was made with.
LogStep == ncalls' = ncalls + 1 /\ last'.op = "log"
Logged == last'.record

\* The severity the claim gives to each level.
SeverityOf ==
    [Debug |-> "Debug", Info |-> "Info", Warn |-> "Warning", Error |-> "Error",
     Trace |-> "Debug"]

\* The record is at or above the threshold the logger was installed with.
AtOrAboveThreshold(record) ==
    LevelRank(record.level) <= LevelRank(Unwrap(log_level))

\* The step has written exactly one log envelope, with the severity of the
\* record's level, as one frame.
OneLogEnvelope(record) ==
    /\ Len(sent') = Len(sent) + 1
    /\ SubSeq(sent', 1, Len(sent)) = sent
    /\ sent'[Len(sent')].method = M_log
    /\ Unwrap(sent'[Len(sent')].params).level \in LogLevel
    /\ Unwrap(sent'[Len(sent')].params).level = SeverityOf[record.level]
    /\ stdout' = stdout \o Frame(SerMessage(sent'[Len(sent')]))

NoLogEnvelope == sent' = sent /\ stdout' = stdout

----------------------------------------------------------------------------
(* C13 *)

\* C13 as claimed: a failure in the format closure is swallowed, so that no
\* log call ends in a panic.
C13_Claim == last.op = "log" => ~panicked

\* What the closure does instead: a record that passes the filter and has a
\* value that fails to display ends the log call in the panic of format!, with
\* nothing written; all other log calls return.
C13_FormatFailurePanics ==
    [][LogStep =>
          IF /\ IsSome(log_level)
             /\ matches(Unwrap(log_level), Logged.level)
             /\ ~format(Logged.args).ok
          THEN panicked' /\ NoLogEnvelope
          ELSE ~panicked']_vars

----------------------------------------------------------------------------
(* C11 *)

\* The frames of the messages sent[i..], one after the other.
RECURSIVE FramesSent(_)
FramesSent(i) ==
    IF i > Len(sent) THEN << >>
    ELSE Frame(SerMessage(sent[i])) \o FramesSent(i + 1)

\* The writers that are inside print!, between lock and unlock.
Writing == {t \in Writers : threads[t].pc = "write"}

\* The channel holds the frames of the finished calls and, after them, the
\* beginning of the frame of the one call that is inside print!.
CompleteFramesThenOneBeginning ==
    \/ /\ Writing = {}
       /\ stdout = FramesSent(1)
    \/ \E t \in Writing :
           /\ stdout \o Concat(threads[t].pieces)
                  = FramesSent(1) \o Frame(SerMessage(Unwrap(threads[t].message)))
           /\ \A u \in Writing \ {t} :
                  threads[u].pieces = FramePieces(SerMessage(Unwrap(threads[u].message)))

\* C11: whatever the interleaving of the writers, the channel is a
\* concatenation of complete frames, followed at most by the beginning of the
\* frame that is being written: no frame has bytes of another frame inside it,
\* and when no call is inside print! a reader who parses by Content-Length
\* reads exactly the messages sent.
C11_FramesAreAtomic ==
    /\ CompleteFramesThenOneBeginning
    /\ Writing = {} =>
           LET r == Received IN
           /\ r.ok
           /\ r.bodies = [i \in 1..Len(sent) |-> SerMessage(sent[i])]

\* The logger has written a frame while the reporter was waiting for the lock
\* with its message serialized, the reporter has written its frame after it,
\* and the logger is inside print! again, one piece written.
C11_Witness ==
    /\ Len(sent) = 2
    /\ sent[1].method = M_log
    /\ sent[2].method = M_envManager
    /\ threads["logger"].pc = "write"
    /\ Len(threads["logger"].pieces) = 3
    /\ stdout_lock = Some("logger")

----------------------------------------------------------------------------
(* C17 *)

\* No key has more than one envelope.
NoKeyTwice ==
    \A k \in Paths : ManagerEnvelopes(k) <= 1 /\ EnvironmentEnvelopes(k) <= 1

\* C17: when every call has the dispatcher to itself, no interleaving of the
\* callers writes two envelopes for one key; the state C17_Witness shows that
\* without it the check and the insert of two calls interleave and a key is
\* written twice.
C17_SerializedCallsNeverDuplicate == exclusive => NoKeyTwice

\* Without exclusion two callers have reported the same environment with its
\* manager: each passed the check before the other inserted, and the channel
\* has two envelopes for the environment and two for the manager.
C17_Witness ==
    /\ ~exclusive
    /\ EnvironmentEnvelopes(PathA) = 2
    /\ ManagerEnvelopes(PathA) = 2
    /\ reported_environments = {PathA}
    /\ reported_managers = {PathA}

====
